---- MODULE Spec2Model ----
(***************************************************************************)
(* The stock-state reconciliation engine of the Telegram / WooCommerce     *)
(* integration: check_and_notify_products (one polling cycle over a fresh  *)
(* catalog snapshot) and run_scheduler (the immediate run followed by the  *)
(* periodic job), both of src/telegram_woocommerce_integration/src/main.py *)
(***************************************************************************)
EXTENDS Integers, Sequences, FiniteSets, TLC

\* ---------------------------------------------------------------- bounds
\* Longest snapshot wc.get_all_products() returns in the model.
MaxSnapLen == 2
\* Longest run of cycles remembered by the scenario history hist.
MaxHist == 4
\* Longest name or message text.
MaxTextLen == 3

\* ------------------------------------------------------------- constants
\* product.get('id') of a record without identity: falsy, so the record is
\* skipped by "if not product_id".
NoId == 0

\* The product identities of the catalog.
Ids == {1, 2}

\* What awaiting tg.send_out_of_stock_notification yields: True ("ok") or
\* False ("fail", the delivery failed).
Outcomes == {"ok", "fail"}

\* The same, and the await raising an exception, which the callers of
\* check_and_notify_products catch and log.
OutcomesOrRaise == Outcomes \cup {"raise"}

\* The (name, permalink) pairs a record of identity i may carry: identity 1
\* is renamed and re-linked, identity 2 keeps its metadata.
MetadataOf(i) ==
  IF i = 1 THEN { <<"n1", "p1">>, <<"n2", "p1">>, <<"n1", "p2">> }
  ELSE { <<"n1", "p1">> }

\* A catalog record as the cycle reads it: product.get('id'), .get('name'),
\* .get('permalink') and wc.check_product_stock_status(product).
Product(i, m, o) ==
  [id |-> i, name |-> m[1], permalink |-> m[2], is_out_of_stock |-> o]

\* A record without identity is skipped before any other field is used, so
\* one such record stands for all of them.
Products ==
  UNION { { Product(i, m, o) : m \in MetadataOf(i), o \in BOOLEAN } : i \in Ids }
    \cup { Product(NoId, <<"n1", "p1">>, FALSE) }

SeqsUpTo(S, n) == UNION { [1 .. k -> S] : k \in 0 .. n }

\* The results of wc.get_all_products(): any sequence of records, the empty
\* one included (no products, or a fetch that failed).
Snapshots == SeqsUpTo(Products, MaxSnapLen)

\* ---------------------------------------------------------------- strings
\* The letters of the texts: two letters in both cases.
Chars == {"a", "A", "b", "B"}

\* str.lower() on one letter.
LowerChar(c) == IF c = "A" THEN "a" ELSE IF c = "B" THEN "b" ELSE c

\* str.lower().
Lower(str) == [i \in 1 .. Len(str) |-> LowerChar(str[i])]

\* str.startswith.
StartsWith(str, prefix) ==
  /\ Len(prefix) <= Len(str)
  /\ SubSeq(str, 1, Len(prefix)) = prefix

\* Python's "needle in hay" on strings: needle starts at some position.
RECURSIVE In(_, _)
In(needle, hay) ==
  IF StartsWith(hay, needle) THEN TRUE
  ELSE IF hay = << >> THEN FALSE
  ELSE In(needle, Tail(hay))

\* The texts of at most MaxTextLen letters; << >> is the missing or empty
\* text, which Python takes for false.
Texts == SeqsUpTo(Chars, MaxTextLen)

\* A value of the OUT_OF_STOCK_KEYWORD setting that has letters of both
\* cases.
OUT_OF_STOCK_KEYWORD == << "a", "B" >>

VARIABLES
  PRODUCT_STOCK_STATES,       \* id -> [name, is_out_of_stock, permalink, notified]
  key_order,                  \* the dict's keys in insertion order
  INITIAL_RUN_COMPLETE,
  pc,                         \* position inside check_and_notify_products
  current_products_api,       \* the snapshot of the cycle
  idx,                        \* position of the for loop in the snapshot
  current_cycle_product_ids,
  sweep_iter,                 \* keys the first-scan sweep has still to visit
  schedPc,                    \* position inside run_scheduler
  due,                        \* the scheduled job's next_run has passed
  inflight,                   \* executions of check_and_notify_products begun and not ended
  log,                        \* notifier calls of the cycle: [id, phase, outcome]
  status,                     \* how the last cycle ended
  cold,                       \* no non-empty snapshot was fetched before this cycle
  start_states,               \* PRODUCT_STOCK_STATES when the cycle began
  start_flag,                 \* INITIAL_RUN_COMPLETE when the cycle began
  removed,                    \* the entries the cycle before this one deleted
  hist,                       \* per cycle [oos, calls, raised], while histOn
  histOn,
  settings,                   \* the required settings the environment sets
  reply,                      \* position of the reply handler: [pc, post]
  probe                       \* input and result of a function under test

vars ==
  << PRODUCT_STOCK_STATES, key_order, INITIAL_RUN_COMPLETE, pc,
     current_products_api, idx, current_cycle_product_ids, sweep_iter,
     schedPc, due, inflight, log, status, cold, start_states, start_flag,
     removed, hist, histOn, settings, reply, probe >>

\* What the cycle and the scheduler never write.
aux == << settings, reply, probe >>

\* ------------------------------------------------------- the cycle's steps
\* The part of the state one step of the cycle reads and writes.
Engine ==
  [ states |-> PRODUCT_STOCK_STATES, order |-> key_order,
    irc |-> INITIAL_RUN_COMPLETE, seen |-> current_cycle_product_ids,
    log |-> log, raised |-> FALSE ]

\* PRODUCT_STOCK_STATES[product_id]["notified"] = True, the statement after
\* each await of the notifier: reached whenever the await returns, whatever
\* it returns.
MarkNotified(E, pid, oc) ==
  [E EXCEPT !.states[pid].notified = TRUE]

\* Notify of a cycle that gives up when a delivery fails.
NotifyStopsOnFailure(E, pid, phase, oc) ==
  LET E1 == [E EXCEPT !.log = Append(@, [id |-> pid, phase |-> phase, outcome |-> oc])]
  IN  IF oc = "ok" THEN MarkNotified(E1, pid, oc)
      ELSE [E1 EXCEPT !.raised = TRUE]

\* await tg.send_out_of_stock_notification(...) followed by the assignment
\* of notified; an exception leaves the assignment out and ends the cycle.
Notify(E, pid, phase, oc) ==
  LET E1 == [E EXCEPT !.log = Append(@, [id |-> pid, phase |-> phase, outcome |-> oc])]
  IN  IF oc = "raise" THEN [E1 EXCEPT !.raised = TRUE]
      ELSE MarkNotified(E1, pid, oc)

\* NotifyNewNow of a cycle that leaves every first-seen product to a sweep.
NotifyNewNever(E) == FALSE

\* Whether a first-seen out-of-stock product is notified at once.
NotifyNewNow(E) == E.irc

\* previous_state is None: insert, and notify at once only after the
\* initial scan.
NewProduct(E, product, oc) ==
  LET pid == product.id
      entry == [ name |-> product.name,
                 is_out_of_stock |-> product.is_out_of_stock,
                 permalink |-> product.permalink,
                 notified |-> FALSE ]
      E1 == [E EXCEPT !.states = (pid :> entry) @@ @,
                      !.order = Append(@, pid)]
  IN  IF product.is_out_of_stock /\ NotifyNewNow(E)
        THEN Notify(E1, pid, "item", oc)
        ELSE E1

\* BackInStock without the reset of notified.
BackInStockKeepsNotified(E, pid) == E

\* The product is back in stock: reset notified.
BackInStock(E, pid) ==
  [E EXCEPT !.states[pid].notified = FALSE]

\* StockChanged that notifies and leaves the stored flag as it was.
StockChangedNotStored(E, product, oc) ==
  IF product.is_out_of_stock
    THEN Notify(E, product.id, "item", oc)
    ELSE BackInStock(E, product.id)

\* StockChanged with the back-in-stock message switched on.
StockChangedNotifiesBack(E, product, oc) ==
  Notify([E EXCEPT !.states[product.id].is_out_of_stock = product.is_out_of_stock],
         product.id, "item", oc)

\* The stock status changed: store it, then notify (out of stock) or reset
\* notified (back in stock).
StockChanged(E, product, oc) ==
  LET pid == product.id
      E1 == [E EXCEPT !.states[pid].is_out_of_stock = product.is_out_of_stock]
  IN  IF product.is_out_of_stock
        THEN Notify(E1, pid, "item", oc)
        ELSE BackInStock(E1, pid)

\* NeedsReconfirm of a loop without the re-confirmation branch.
NeedsReconfirmNever(prev, product) == FALSE

\* NeedsReconfirm that does not look at the notified flag.
NeedsReconfirmAlways(prev, product) == product.is_out_of_stock

\* elif is_currently_out_of_stock and not previous_state.get("notified").
NeedsReconfirm(prev, product) ==
  product.is_out_of_stock /\ ~prev.notified

\* RefreshMetadata that looks at the name only.
RefreshMetadataOnRename(E, product) ==
  LET pid == product.id
      prev == E.states[pid]
  IN  IF prev.name # product.name
        THEN [E EXCEPT !.states[pid].name = product.name,
                       !.states[pid].permalink = product.permalink]
        ELSE E

\* Update permalink and name in case they changed.
RefreshMetadata(E, product) ==
  LET pid == product.id
      prev == E.states[pid]
  IN  IF prev.name # product.name \/ prev.permalink # product.permalink
        THEN [E EXCEPT !.states[pid].name = product.name,
                       !.states[pid].permalink = product.permalink]
        ELSE E

\* previous_state is not None.
ExistingProduct(E, product, oc) ==
  LET pid == product.id
      prev == E.states[pid]
      E1 == IF product.is_out_of_stock # prev.is_out_of_stock
              THEN StockChanged(E, product, oc)
            ELSE IF NeedsReconfirm(prev, product)
              THEN Notify(E, pid, "item", oc)
            ELSE E
  IN  IF E1.raised THEN E1 ELSE RefreshMetadata(E1, product)

\* ProcessProduct that assigns the identity to current_cycle_product_ids
\* instead of adding it.
ProcessProductSeenLast(E, product, oc) ==
  LET pid == product.id
      E1 == [E EXCEPT !.seen = {pid}]
  IN  IF pid = NoId THEN E1
      ELSE IF pid \notin DOMAIN E.states THEN NewProduct(E1, product, oc)
      ELSE ExistingProduct(E1, product, oc)

\* ProcessProduct without the "if not product_id: continue".
ProcessProductKeepsNoId(E, product, oc) ==
  LET pid == product.id
      E1 == [E EXCEPT !.seen = @ \cup {pid}]
  IN  IF pid \notin DOMAIN E.states THEN NewProduct(E1, product, oc)
      ELSE ExistingProduct(E1, product, oc)

\* One iteration of "for product in current_products_api".
ProcessProduct(E, product, oc) ==
  LET pid == product.id
      E1 == [E EXCEPT !.seen = @ \cup {pid}]
  IN  IF pid = NoId THEN E1
      ELSE IF pid \notin DOMAIN E.states THEN NewProduct(E1, product, oc)
      ELSE ExistingProduct(E1, product, oc)

\* SweepWants that does not look at the notified flag.
SweepWantsNotifiedToo(state) == state.is_out_of_stock

\* if state["is_out_of_stock"] and not state.get("notified", False).
SweepWants(state) == state.is_out_of_stock /\ ~state.notified

\* One iteration of the sweep over PRODUCT_STOCK_STATES.items().
SweepEntry(E, pid, oc) ==
  IF SweepWants(E.states[pid]) THEN Notify(E, pid, "sweep", oc) ELSE E

\* if not INITIAL_RUN_COMPLETE and current_products_api.
FirstScanDue(E, snapshot) == ~E.irc /\ snapshot # << >>

\* DeletedIds of a cycle that never forgets a product.
DeletedIdsNone(E) == {}

\* set(PRODUCT_STOCK_STATES.keys()) - current_cycle_product_ids.
DeletedIds(E) == DOMAIN E.states \ E.seen

SelectSeq2(s, keep) ==
  LET F[k \in 0 .. Len(s)] ==
        IF k = 0 THEN << >>
        ELSE IF s[k] \in keep THEN Append(F[k - 1], s[k]) ELSE F[k - 1]
  IN  F[Len(s)]

\* del PRODUCT_STOCK_STATES[product_id] for every deleted id.
DeleteAbsent(E) ==
  LET keep == DOMAIN E.states \ DeletedIds(E)
  IN  [E EXCEPT !.states = [p \in keep |-> E.states[p]],
                !.order = SelectSeq2(E.order, keep)]

\* SkipRun that lets an empty snapshot through.
SkipRunNever(snapshot) == FALSE

\* if not current_products_api: skip this run.
SkipRun(snapshot) == snapshot = << >>

\* StoreItems of a sweep that visits the newest entry first.
StoreItemsReversed(order) ==
  [k \in 1 .. Len(order) |-> order[Len(order) + 1 - k]]

\* The keys PRODUCT_STOCK_STATES.items() yields: a dict iterates in the
\* order of insertion.
StoreItems(order) == order

\* INITIAL_RUN_COMPLETE = True, before the sweep.
BeginSweep(E) == [E EXCEPT !.irc = TRUE]

\* The for loop from record k on; an exception ends it.
RECURSIVE RunItems(_, _, _, _)
RunItems(E, snapshot, k, oc) ==
  IF k > Len(snapshot) \/ E.raised THEN E
  ELSE RunItems(ProcessProduct(E, snapshot[k], oc), snapshot, k + 1, oc)

\* The sweep over the keys still to visit; an exception ends it.
RECURSIVE RunSweep(_, _, _)
RunSweep(E, keys, oc) ==
  IF keys = << >> \/ E.raised THEN E
  ELSE RunSweep(SweepEntry(E, Head(keys), oc), Tail(keys), oc)

\* One whole run of check_and_notify_products on a snapshot, every notifier
\* call of the run ending as oc: the early return, the loop, the first-scan
\* sweep and the deletion, in the order of the function body.
Reconcile(states, order, irc, snapshot, oc) ==
  LET E0 == [ states |-> states, order |-> order, irc |-> irc, seen |-> {},
              log |-> << >>, raised |-> FALSE ]
      E1 == RunItems(E0, snapshot, 1, oc)
      E2 == IF ~E1.raised /\ FirstScanDue(E1, snapshot)
              THEN RunSweep(BeginSweep(E1), StoreItems(E1.order), oc)
              ELSE E1
  IN  IF SkipRun(snapshot) THEN E0
      ELSE IF E2.raised THEN E2
      ELSE DeleteAbsent(E2)

\* --------------------------------------------------------------- actions
\* The settings the __main__ block requires before it calls run_scheduler.
RequiredSettings ==
  { "TELEGRAM_BOT_TOKEN", "TELEGRAM_CHANNEL_ID", "WOOCOMMERCE_STORE_URL",
    "WOOCOMMERCE_CONSUMER_KEY", "WOOCOMMERCE_CONSUMER_SECRET" }

\* AllSet of a check that forgets the consumer secret.
AllSetButSecret(S) ==
  (RequiredSettings \ {"WOOCOMMERCE_CONSUMER_SECRET"}) \subseteq S

\* all([config.TELEGRAM_BOT_TOKEN, ..., config.WOOCOMMERCE_CONSUMER_SECRET]):
\* every required setting has a non-empty value.
AllSet(S) == RequiredSettings \subseteq S

\* No reply is being handled.
NoReply == [pc |-> "idle", post |-> NoId]

\* No function is under test.
NoProbe == [fn |-> "none"]

EmptyStates == [p \in {} |-> [notified |-> FALSE]]

\* The module-level state of main.py when the process starts, before the
\* __main__ block runs.
Fresh ==
  /\ PRODUCT_STOCK_STATES = EmptyStates
  /\ key_order = << >>
  /\ INITIAL_RUN_COMPLETE = FALSE
  /\ pc = "idle"
  /\ current_products_api = << >>
  /\ idx = 0
  /\ current_cycle_product_ids = {}
  /\ sweep_iter = << >>
  /\ schedPc = "main"
  /\ due = FALSE
  /\ inflight = 0
  /\ log = << >>
  /\ status = "none"
  /\ cold = TRUE
  /\ start_states = EmptyStates
  /\ start_flag = FALSE
  /\ removed = EmptyStates
  /\ hist = << >>
  /\ histOn = TRUE
  /\ reply = NoReply

Init ==
  /\ Fresh
  /\ settings \in SUBSET RequiredSettings
  /\ probe = NoProbe

\* The engine's part of the state after a step that left it as E.
SetEngine(E) ==
  /\ PRODUCT_STOCK_STATES' = E.states
  /\ key_order' = E.order
  /\ INITIAL_RUN_COMPLETE' = E.irc
  /\ current_cycle_product_ids' = E.seen
  /\ log' = E.log

\* The __main__ block: run_scheduler() is called only when every required
\* setting is there; otherwise the error is logged and the process ends.
Main ==
  /\ schedPc = "main"
  /\ schedPc' = IF AllSet(settings) THEN "startup" ELSE "exit"
  /\ UNCHANGED << PRODUCT_STOCK_STATES, key_order, INITIAL_RUN_COMPLETE, pc,
                  current_products_api, idx, current_cycle_product_ids,
                  sweep_iter, due, inflight, log, status, cold, start_states,
                  start_flag, removed, hist, histOn, settings, reply, probe >>

\* asyncio.run(check_and_notify_products()) at the start of run_scheduler.
RunInitial ==
  /\ UNCHANGED aux
  /\ schedPc = "startup"
  /\ schedPc' = "initial"
  /\ pc' = "fetch"
  /\ inflight' = inflight + 1
  /\ UNCHANGED << PRODUCT_STOCK_STATES, key_order, INITIAL_RUN_COMPLETE,
                  current_products_api, idx, current_cycle_product_ids,
                  sweep_iter, due, log, status, cold, start_states,
                  start_flag, removed, hist, histOn >>

\* The job's interval elapses; the clock does not wait for a running cycle.
Tick ==
  /\ UNCHANGED aux
  /\ schedPc \in {"loop", "job"}
  /\ ~due
  /\ due' = TRUE
  /\ UNCHANGED << PRODUCT_STOCK_STATES, key_order, INITIAL_RUN_COMPLETE, pc,
                  current_products_api, idx, current_cycle_product_ids,
                  sweep_iter, schedPc, inflight, log, status, cold,
                  start_states, start_flag, removed, hist, histOn >>

\* CanRunPending of a scheduler that starts the due job from a timer thread,
\* whether or not a job is running.
CanRunPendingWhileRunning == schedPc \in {"loop", "job"} /\ due

\* schedule.run_pending() is called by the loop of run_scheduler only, and
\* the loop is back at it only after the job it started has returned.
CanRunPending == schedPc = "loop" /\ due

\* schedule.run_pending() starts the due job.
RunPending ==
  /\ UNCHANGED aux
  /\ CanRunPending
  /\ schedPc' = "job"
  /\ pc' = "fetch"
  /\ inflight' = inflight + 1
  /\ UNCHANGED << PRODUCT_STOCK_STATES, key_order, INITIAL_RUN_COMPLETE,
                  current_products_api, idx, current_cycle_product_ids,
                  sweep_iter, due, log, status, cold, start_states,
                  start_flag, removed, hist, histOn >>

\* current_products_api = wc.get_all_products(), and the early return.
Fetch ==
  /\ UNCHANGED aux
  /\ pc = "fetch"
  /\ \E s \in Snapshots :
       /\ current_products_api' = s
       /\ IF SkipRun(s)
            THEN pc' = "return" /\ status' = "skipped"
            ELSE /\ pc' = IF Len(s) = 0 THEN "firstscan" ELSE "items"
                 /\ status' = "running"
  /\ idx' = 1
  /\ current_cycle_product_ids' = {}
  /\ log' = << >>
  /\ start_states' = PRODUCT_STOCK_STATES
  /\ start_flag' = INITIAL_RUN_COMPLETE
  /\ UNCHANGED << PRODUCT_STOCK_STATES, key_order, INITIAL_RUN_COMPLETE,
                  sweep_iter, schedPc, due, inflight, cold, removed, hist, histOn >>

\* One iteration of the for loop, the notifier ending in one of the ways
\* of OC; an exception of the notifier leaves the function.
ItemWith(OC) ==
  /\ UNCHANGED aux
  /\ pc = "items"
  /\ \E oc \in OC :
       LET E == ProcessProduct(Engine, current_products_api[idx], oc)
       IN  /\ SetEngine(E)
           /\ IF E.raised
                THEN pc' = "return" /\ status' = "aborted" /\ idx' = idx
                ELSE /\ idx' = idx + 1
                     /\ status' = status
                     /\ pc' = IF idx + 1 > Len(current_products_api)
                                THEN "firstscan" ELSE "items"
  /\ UNCHANGED << current_products_api, sweep_iter, schedPc, due, inflight,
                  cold, start_states, start_flag, removed, hist, histOn >>

\* After the loop: set INITIAL_RUN_COMPLETE on the first scan and start the
\* sweep over PRODUCT_STOCK_STATES.items().
FirstScan ==
  /\ UNCHANGED aux
  /\ pc = "firstscan"
  /\ IF FirstScanDue(Engine, current_products_api)
       THEN /\ INITIAL_RUN_COMPLETE' = BeginSweep(Engine).irc
            /\ sweep_iter' = StoreItems(key_order)
            /\ pc' = IF key_order = << >> THEN "delete" ELSE "sweep"
       ELSE /\ pc' = "delete"
            /\ UNCHANGED << INITIAL_RUN_COMPLETE, sweep_iter >>
  /\ UNCHANGED << PRODUCT_STOCK_STATES, key_order, current_products_api, idx,
                  current_cycle_product_ids, schedPc, due, inflight, log,
                  status, cold, start_states, start_flag, removed, hist, histOn >>

\* One iteration of the sweep, the notifier ending in one of the ways of OC.
SweepWith(OC) ==
  /\ UNCHANGED aux
  /\ pc = "sweep"
  /\ \E oc \in OC :
       LET E == SweepEntry(Engine, Head(sweep_iter), oc)
       IN  /\ SetEngine(E)
           /\ IF E.raised
                THEN pc' = "return" /\ status' = "aborted"
                       /\ sweep_iter' = sweep_iter
                ELSE /\ sweep_iter' = Tail(sweep_iter)
                     /\ status' = status
                     /\ pc' = IF Tail(sweep_iter) = << >>
                                THEN "delete" ELSE "sweep"
  /\ UNCHANGED << current_products_api, idx, schedPc, due, inflight, cold,
                  start_states, start_flag, removed, hist, histOn >>

\* Remove the products that are no longer in the API, then return.
Delete ==
  /\ UNCHANGED aux
  /\ pc = "delete"
  /\ SetEngine(DeleteAbsent(Engine))
  /\ removed' = [p \in DeletedIds(Engine) |-> PRODUCT_STOCK_STATES[p]]
  /\ pc' = "return"
  /\ status' = "completed"
  /\ UNCHANGED << current_products_api, idx, sweep_iter, schedPc, due,
                  inflight, cold, start_states, start_flag, hist, histOn >>

\* A snapshot of one record for identity 1 with the metadata <<"n1","p1">>.
Simple(snapshot) ==
  /\ Len(snapshot) = 1
  /\ snapshot[1].id = 1
  /\ snapshot[1].name = "n1"
  /\ snapshot[1].permalink = "p1"

CallsFor(pid) == { k \in 1 .. Len(log) : log[k].id = pid }

\* AfterCycle of a scheduler that lets the exception of a cycle through.
AfterCycleStopsOnError(st) == IF st = "aborted" THEN "stopped" ELSE "loop"

\* Where run_scheduler is after a cycle that ended as st: the except
\* clauses around the initial run and in check_and_notify_products_job log
\* the exception, so the while loop is reached or resumed either way.
AfterCycle(st) == "loop"

\* check_and_notify_products has returned or raised (the except clauses of
\* run_scheduler and check_and_notify_products_job only log); control is
\* back in run_scheduler, which registers the job after the initial run and
\* re-computes the job's next run after a scheduled one.
Return ==
  /\ UNCHANGED aux
  /\ pc = "return"
  /\ pc' = "idle"
  /\ inflight' = inflight - 1
  /\ schedPc' = AfterCycle(status)
  /\ due' = IF schedPc = "job" THEN FALSE ELSE due
  /\ cold' = (cold /\ current_products_api = << >>)
  /\ IF histOn /\ Simple(current_products_api) /\ Len(hist) < MaxHist
       THEN /\ hist' = Append(hist,
                         [ oos |-> current_products_api[1].is_out_of_stock,
                           calls |-> Cardinality(CallsFor(1)),
                           raised |-> (status = "aborted") ])
            /\ histOn' = TRUE
       ELSE hist' = << >> /\ histOn' = FALSE
  /\ current_products_api' = << >>
  /\ idx' = 0
  /\ current_cycle_product_ids' = {}
  /\ sweep_iter' = << >>
  /\ log' = << >>
  /\ status' = "none"
  /\ start_states' = EmptyStates
  /\ start_flag' = FALSE
  /\ removed' = IF status = "completed" THEN removed ELSE EmptyStates
  /\ UNCHANGED << PRODUCT_STOCK_STATES, key_order, INITIAL_RUN_COMPLETE >>

Item == ItemWith(Outcomes)

Sweep == SweepWith(Outcomes)

Next ==
  \/ Main
  \/ RunInitial
  \/ Tick
  \/ RunPending
  \/ Fetch
  \/ Item
  \/ FirstScan
  \/ Sweep
  \/ Delete
  \/ Return

Spec == Init /\ [][Next]_vars

\* The same program when an await of the notifier may also raise.
ItemRaising == ItemWith(OutcomesOrRaise)

SweepRaising == SweepWith(OutcomesOrRaise)

NextRaising ==
  \/ Main
  \/ RunInitial
  \/ Tick
  \/ RunPending
  \/ Fetch
  \/ ItemRaising
  \/ FirstScan
  \/ SweepRaising
  \/ Delete
  \/ Return

SpecRaising == Init /\ [][NextRaising]_vars

\* The same with the process kept running: the interval elapses, the while
\* loop polls schedule.run_pending() every second, and a cycle that has
\* begun runs on until it returns or raises.
SpecRaisingFair == SpecRaising /\ WF_vars(NextRaising)

\* ------------------------------------------------------------ the replies
\* An update as handle_reply reads it: reply_to is the product of the post
\* the message replies to (NoId when the message is no reply), text is
\* message.text.
Message(original_post, text) == [reply_to |-> original_post, text |-> text]

\* HasKeyword that compares the letters as they are.
HasKeywordCaseSensitive(text, keyword) ==
  text # << >> /\ In(keyword, text)

\* message.text and OUT_OF_STOCK_KEYWORD.lower() in message.text.lower().
HasKeyword(text, keyword) ==
  text # << >> /\ In(Lower(keyword), Lower(text))

\* handle_reply forwards the message to the stock update: it is a reply and
\* its text holds the keyword.
Forwards(message, keyword) ==
  message.reply_to # NoId /\ HasKeyword(message.text, keyword)

\* The messages that reach handle_reply while the scheduler runs: replies
\* to the post of product 1 and messages that are no replies.
ReplyMessages ==
  { Message(o, t) : o \in {1, NoId},
                    t \in { << >>, << "A", "b" >>, << "b", "a", "B" >>, << "b", "a" >> } }

\* A stock update that marks the product of the post out of stock and
\* notified.
ReplyMarksOutOfStock(E, original_post) ==
  IF original_post \in DOMAIN E.states
    THEN [E EXCEPT !.states[original_post].is_out_of_stock = TRUE,
                   !.states[original_post].notified = TRUE]
    ELSE E

\* process_telegram_reply_for_stock_update: src.main defines no function of
\* that name, the import fails, and the stand-in defined in its place logs
\* a warning and returns.
ProcessTelegramReplyForStockUpdate(E, original_post) == E

\* handle_reply up to the await of the stock update.
HandleReply ==
  /\ reply.pc = "idle"
  /\ \E message \in ReplyMessages :
       reply' = IF Forwards(message, OUT_OF_STOCK_KEYWORD)
                  THEN [pc |-> "update", post |-> message.reply_to]
                  ELSE reply
  /\ UNCHANGED << PRODUCT_STOCK_STATES, key_order, INITIAL_RUN_COMPLETE, pc,
                  current_products_api, idx, current_cycle_product_ids,
                  sweep_iter, schedPc, due, inflight, log, status, cold,
                  start_states, start_flag, removed, hist, histOn, settings,
                  probe >>

\* await process_telegram_reply_for_stock_update(original_post, ...), at
\* whatever point the scheduled cycle is.
ReplyUpdate ==
  /\ reply.pc = "update"
  /\ SetEngine(ProcessTelegramReplyForStockUpdate(Engine, reply.post))
  /\ reply' = NoReply
  /\ UNCHANGED << pc, current_products_api, idx, sweep_iter, schedPc, due,
                  inflight, status, cold, start_states, start_flag, removed,
                  hist, histOn, settings, probe >>

\* The scheduler and the reply handler side by side.
NextReplies ==
  \/ Main
  \/ RunInitial
  \/ Tick
  \/ RunPending
  \/ Fetch
  \/ Item
  \/ FirstScan
  \/ Sweep
  \/ Delete
  \/ Return
  \/ HandleReply
  \/ ReplyUpdate

SpecReplies == Init /\ [][NextReplies]_vars

\* ----------------------------------------------------- the classification
\* A catalog record as wc.check_product_stock_status reads it: whether the
\* source reports it in stock, and its name.
RawProduct(in_stock, name) == [in_stock |-> in_stock, name |-> name]

RawProducts == { RawProduct(b, n) : b \in BOOLEAN, n \in Texts }

\* The values of the OUT_OF_STOCK_KEYWORD setting: one or two letters.
Keywords == SeqsUpTo(Chars, 2) \ { << >> }

\* check_product_stock_status that compares the letters as they are.
CheckProductStockStatusCaseSensitive(product, keyword) ==
  ~product.in_stock \/ In(keyword, product.name)

\* wc.check_product_stock_status(product): out of stock when the source
\* does not report the record in stock or the keyword occurs in its name,
\* whatever the case of the letters.
CheckProductStockStatus(product, keyword) ==
  ~product.in_stock \/ In(Lower(keyword), Lower(product.name))

\* A record and a keyword to classify.
InitClassify ==
  /\ Fresh
  /\ settings = RequiredSettings
  /\ \E product \in RawProducts, keyword \in Keywords :
       probe = [ fn |-> "check_product_stock_status", product |-> product,
                 keyword |-> keyword, done |-> FALSE, result |-> FALSE ]

\* is_currently_out_of_stock = wc.check_product_stock_status(product).
Classify ==
  /\ probe.fn = "check_product_stock_status"
  /\ ~probe.done
  /\ probe' = [probe EXCEPT !.done = TRUE,
                            !.result = CheckProductStockStatus(probe.product, probe.keyword)]
  /\ UNCHANGED << PRODUCT_STOCK_STATES, key_order, INITIAL_RUN_COMPLETE, pc,
                  current_products_api, idx, current_cycle_product_ids,
                  sweep_iter, schedPc, due, inflight, log, status, cold,
                  start_states, start_flag, removed, hist, histOn, settings,
                  reply >>

NextClassify == Classify

SpecClassify == InitClassify /\ [][NextClassify]_vars

\* ------------------------------------------------- handle_reply, by itself
\* The messages handle_reply may be called for: replies to the post of
\* product 1 and messages that are no replies, with any text or none.
AllMessages == { Message(o, t) : o \in {1, NoId}, t \in Texts }

\* The values of the OUT_OF_STOCK_KEYWORD setting, the empty one included.
KeywordSettings == Keywords \cup { << >> }

\* A message and a keyword setting for handle_reply.
InitHandleReply ==
  /\ Fresh
  /\ settings = RequiredSettings
  /\ \E message \in AllMessages, keyword \in KeywordSettings :
       probe = [ fn |-> "handle_reply", message |-> message,
                 keyword |-> keyword, done |-> FALSE, forwarded |-> FALSE ]

\* handle_reply on the message, up to the await of the stock update.
HandleReplyOnce ==
  /\ probe.fn = "handle_reply"
  /\ ~probe.done
  /\ reply.pc = "idle"
  /\ LET forwards == Forwards(probe.message, probe.keyword)
     IN  /\ reply' = IF forwards
                        THEN [pc |-> "update", post |-> probe.message.reply_to]
                        ELSE reply
         /\ probe' = [probe EXCEPT !.done = TRUE, !.forwarded = forwards]
  /\ UNCHANGED << PRODUCT_STOCK_STATES, key_order, INITIAL_RUN_COMPLETE, pc,
                  current_products_api, idx, current_cycle_product_ids,
                  sweep_iter, schedPc, due, inflight, log, status, cold,
                  start_states, start_flag, removed, hist, histOn, settings >>

NextHandleReply ==
  \/ HandleReplyOnce
  \/ ReplyUpdate

SpecHandleReply == InitHandleReply /\ [][NextHandleReply]_vars

\* ---------------------------------------------------------------- claims
\* check_and_notify_products has returned or raised and run_scheduler has
\* not taken control back yet: the cycle's locals are still there.
Returned == pc = "return"

\* The identities of the records of a snapshot.
SnapIds(snapshot) == { snapshot[k].id : k \in 1 .. Len(snapshot) }

\* C1: in every state reached after check_and_notify_products has returned,
\* every entry of the store with notified = TRUE has is_out_of_stock = TRUE.
C1_NotifiedImpliesOutOfStock ==
  pc \in {"return", "idle"} =>
    \A p \in DOMAIN PRODUCT_STOCK_STATES :
      PRODUCT_STOCK_STATES[p].notified => PRODUCT_STOCK_STATES[p].is_out_of_stock

\* A cycle has completed in which one entry was notified before the cycle
\* and is back in stock after it, and another entry is notified.
C1_Witness ==
  /\ Returned
  /\ status = "completed"
  /\ \E p \in DOMAIN PRODUCT_STOCK_STATES \cap DOMAIN start_states :
       /\ start_states[p].notified
       /\ ~PRODUCT_STOCK_STATES[p].is_out_of_stock
       /\ ~PRODUCT_STOCK_STATES[p].notified
  /\ \E q \in DOMAIN PRODUCT_STOCK_STATES : PRODUCT_STOCK_STATES[q].notified

\* C7: a cycle whose snapshot is empty changes nothing: the store and the
\* initial-scan flag are what they were when the cycle began, no notifier
\* call was made and no entry was deleted.
C7_EmptySnapshotChangesNothing ==
  (Returned /\ current_products_api = << >>) =>
    /\ PRODUCT_STOCK_STATES = start_states
    /\ INITIAL_RUN_COMPLETE = start_flag
    /\ log = << >>

\* An empty snapshot has arrived after the initial scan, while the store
\* holds a notified entry.
C7_Witness ==
  /\ Returned
  /\ current_products_api = << >>
  /\ INITIAL_RUN_COMPLETE
  /\ \E p \in DOMAIN PRODUCT_STOCK_STATES : PRODUCT_STOCK_STATES[p].notified

\* C10: at every moment at most one execution of check_and_notify_products
\* is in flight, also when the timer fires while a cycle is running.
C10_NoOverlap == inflight <= 1

\* The timer has fired while the scheduled job is in the middle of a cycle.
C10_Witness ==
  /\ due
  /\ schedPc = "job"
  /\ pc \in {"items", "sweep"}
  /\ inflight = 1

\* The stock flags and the numbers of notifier calls of the first n cycles
\* of the history.
HistOos(n) == [k \in 1 .. n |-> hist[k].oos]
HistCalls(n) == [k \in 1 .. n |-> hist[k].calls]

\* The records of identity p in a snapshot.
RecordsOf(snapshot, p) == { k \in 1 .. Len(snapshot) : snapshot[k].id = p }
OccursOnce(snapshot, p) == Cardinality(RecordsOf(snapshot, p)) = 1

\* The notifier is not called for an identity that was out of stock and
\* notified when the cycle began, unless a record of the snapshot shows it
\* in stock.
NoRepeatWhileOutOfStock ==
  \A k \in 1 .. Len(log) :
    LET p == log[k].id
    IN  (/\ p \in DOMAIN start_states
         /\ start_states[p].is_out_of_stock
         /\ start_states[p].notified)
        => \E j \in RecordsOf(current_products_api, p) :
             ~current_products_api[j].is_out_of_stock

\* The cycles so far were [A in stock], [A out of stock], [A out of stock],
\* [A out of stock].
DedupScenario ==
  /\ Len(hist) >= 4
  /\ HistOos(4) = << FALSE, TRUE, TRUE, TRUE >>

\* C2: in the dedup scenario the notifier is called for A exactly once, in
\* the second cycle, and an identity that stays out of stock after having
\* been notified is not notified again before it has been back in stock.
C2_TransitionDedup ==
  /\ NoRepeatWhileOutOfStock
  /\ DedupScenario => HistCalls(4) = << 0, 1, 0, 0 >>

\* The four cycles of the scenario have run and A is notified.
C2_Witness ==
  /\ DedupScenario
  /\ HistCalls(4) = << 0, 1, 0, 0 >>
  /\ PRODUCT_STOCK_STATES[1].notified

\* No identity of the snapshot is reported with two different stock states.
ConsistentStock(snapshot) ==
  \A j, k \in 1 .. Len(snapshot) :
    snapshot[j].id = snapshot[k].id
      => snapshot[j].is_out_of_stock = snapshot[k].is_out_of_stock

\* A second run on the snapshot of the run that has just ended calls the
\* notifier for nobody and leaves the store as the first run left it.
SecondRunQuiet ==
  \A oc \in Outcomes :
    LET R == Reconcile(PRODUCT_STOCK_STATES, key_order, INITIAL_RUN_COMPLETE,
                       current_products_api, oc)
    IN  R.log = << >> /\ R.states = PRODUCT_STOCK_STATES

\* C3 as stated: for every store and every non-empty snapshot a second run
\* with the same snapshot sends nothing and leaves the store unchanged.
C3_Idempotence ==
  (Returned /\ current_products_api # << >>) => SecondRunQuiet

\* C3 amended: the same for a snapshot that reports no identity with two
\* different stock states and a first run that ran to its end.
C3_IdempotenceOfCompletedRun ==
  (/\ Returned
   /\ current_products_api # << >>
   /\ status = "completed"
   /\ ConsistentStock(current_products_api))
  => SecondRunQuiet

\* A first run has completed that notified an identity, on a snapshot that
\* holds an identity twice.
C3_Witness ==
  /\ Returned
  /\ status = "completed"
  /\ Len(current_products_api) = 2
  /\ current_products_api[1].id = current_products_api[2].id
  /\ current_products_api[1].id # NoId
  /\ ConsistentStock(current_products_api)
  /\ log # << >>
  /\ SecondRunQuiet

\* C4: in the cycle of the first non-empty snapshot, a product the snapshot
\* shows out of stock is notified by the sweep only, never by the loop, and
\* when the cycle has ended it was notified exactly once and has notified =
\* TRUE.
C4_ColdStartSweep ==
  (cold /\ pc # "idle") =>
    \A p \in Ids :
      (\E j \in RecordsOf(current_products_api, p) :
         current_products_api[j].is_out_of_stock)
      => /\ \A k \in CallsFor(p) : log[k].phase = "sweep"
         /\ Returned =>
              /\ Cardinality(CallsFor(p)) = 1
              /\ p \in DOMAIN PRODUCT_STOCK_STATES
              /\ PRODUCT_STOCK_STATES[p].notified

\* The cycles so far were [A out of stock], [A in stock], [A out of stock].
FlipBackScenario ==
  /\ Len(hist) >= 3
  /\ HistOos(3) = << TRUE, FALSE, TRUE >>

\* Whenever the stored flag went from out of stock to in stock during the
\* cycle, notified is FALSE.
ResetOnBackInStock ==
  \A p \in DOMAIN PRODUCT_STOCK_STATES \cap DOMAIN start_states :
    (start_states[p].is_out_of_stock /\ ~PRODUCT_STOCK_STATES[p].is_out_of_stock)
      => ~PRODUCT_STOCK_STATES[p].notified

\* A completed cycle that took an identity from in stock to out of stock
\* called the notifier for it exactly once, and a cycle calls it for no
\* identity its snapshot shows in stock.
ReentryNotifiesOnce ==
  Returned =>
    \A p \in Ids :
      OccursOnce(current_products_api, p) =>
        LET rec == current_products_api[CHOOSE j \in RecordsOf(current_products_api, p) : TRUE]
        IN  /\ ~rec.is_out_of_stock => CallsFor(p) = {}
            /\ (/\ status = "completed"
                /\ rec.is_out_of_stock
                /\ p \in DOMAIN start_states
                /\ ~start_states[p].is_out_of_stock)
               => /\ Cardinality(CallsFor(p)) = 1
                  /\ PRODUCT_STOCK_STATES[p].notified

\* C5 as stated: in the flip-back scenario the two notifications are sent in
\* the second and the third cycle.
C5_FlipBack ==
  /\ FlipBackScenario => HistCalls(3) = << 0, 1, 1 >>
  /\ ResetOnBackInStock
  /\ ReentryNotifiesOnce

\* C5 amended: the two notifications are sent in the first cycle (by the
\* cold-start sweep) and in the third; none is sent in the second, where A
\* comes back in stock; notified is reset when an entry goes back in stock
\* and the next entry into out-of-stock is notified exactly once.
C5_FlipBackFirstAndThird ==
  /\ FlipBackScenario => HistCalls(3) = << 1, 0, 1 >>
  /\ ResetOnBackInStock
  /\ ReentryNotifiesOnce

\* The three cycles of the scenario have run.
C5_Witness ==
  /\ FlipBackScenario
  /\ HistCalls(3) = << 1, 0, 1 >>

\* C6: after a completed cycle on a non-empty snapshot the store holds no
\* identity that is absent from the snapshot; an identity the cycle before
\* deleted and this cycle's snapshot holds again goes through the
\* new-identity branch: a fresh entry, notified at once exactly if it is out
\* of stock and the initial scan is complete.
C6_Deletion ==
  /\ (Returned /\ status = "completed")
       => DOMAIN PRODUCT_STOCK_STATES \subseteq SnapIds(current_products_api)
  /\ pc \in {"items", "firstscan", "sweep", "delete"} =>
       \A p \in DOMAIN removed :
         \A j \in RecordsOf(current_products_api, p) :
           (OccursOnce(current_products_api, p) /\ idx > j) =>
             LET rec == current_products_api[j]
             IN  /\ p \in DOMAIN PRODUCT_STOCK_STATES
                 /\ PRODUCT_STOCK_STATES[p] =
                      [ name |-> rec.name,
                        is_out_of_stock |-> rec.is_out_of_stock,
                        permalink |-> rec.permalink,
                        notified |-> (rec.is_out_of_stock /\ start_flag) ]
                 /\ Cardinality(CallsFor(p)) =
                      IF rec.is_out_of_stock /\ start_flag THEN 1 ELSE 0

\* An identity that was notified, then deleted by the cycle before, is back
\* in this cycle's snapshot, out of stock, and has been notified anew.
C6_Witness ==
  /\ pc = "delete"
  /\ \E p \in DOMAIN removed :
       /\ removed[p].notified
       /\ OccursOnce(current_products_api, p)
       /\ p \in DOMAIN PRODUCT_STOCK_STATES
       /\ PRODUCT_STOCK_STATES[p].notified
       /\ removed[p].name # PRODUCT_STOCK_STATES[p].name

\* C8: when the notifier reports failure for X, X's notified flag is FALSE
\* after the cycle.
C8_ResultGatesNotified ==
  Returned =>
    \A p \in DOMAIN PRODUCT_STOCK_STATES :
      (CallsFor(p) # {} /\
       log[CHOOSE k \in CallsFor(p) : \A m \in CallsFor(p) : m <= k].outcome = "fail")
      => ~PRODUCT_STOCK_STATES[p].notified

C14_NoSchedulingWithoutSettings ==
  settings # RequiredSettings =>
    /\ schedPc \in {"main", "exit"}
    /\ pc = "idle"
    /\ inflight = 0
    /\ ~due
    /\ PRODUCT_STOCK_STATES = EmptyStates
    /\ ~INITIAL_RUN_COMPLETE

\* The process has ended at the settings check with only the consumer
\* secret missing.
C14_Witness ==
  /\ schedPc = "exit"
  /\ settings = RequiredSettings \ {"WOOCOMMERCE_CONSUMER_SECRET"}

C12_ReplyMarksOutOfStock ==
  [][ (reply.pc = "update" /\ reply'.pc = "idle"
         /\ reply.post \in DOMAIN PRODUCT_STOCK_STATES)
      => /\ reply.post \in DOMAIN PRODUCT_STOCK_STATES'
         /\ PRODUCT_STOCK_STATES'[reply.post].is_out_of_stock
         /\ (~PRODUCT_STOCK_STATES[reply.post].is_out_of_stock
               => PRODUCT_STOCK_STATES'[reply.post].notified) ]_vars

\* The keyword occurs in the name at some position, letters compared
\* without regard to case.
OccursIgnoringCase(keyword, name) ==
  \E k \in 0 .. Len(name) - Len(keyword) :
    \A i \in 1 .. Len(keyword) : LowerChar(name[k + i]) = LowerChar(keyword[i])

HasId(product) == product.id # NoId
Valid(snapshot) == SelectSeq(snapshot, HasId)

\* A cycle is at its first record: the store is as it was when the cycle
\* began.
AtCycleStart == pc = "items" /\ idx = 1

\* A run on the snapshot and a run on the snapshot without its id-less
\* records end with the same store, the same key order, the same flag and
\* the same notifier calls.
SameAsWithoutMalformed(snapshot) ==
  \A oc \in OutcomesOrRaise :
    LET R == Reconcile(PRODUCT_STOCK_STATES, key_order, INITIAL_RUN_COMPLETE,
                       snapshot, oc)
        V == Reconcile(PRODUCT_STOCK_STATES, key_order, INITIAL_RUN_COMPLETE,
                       Valid(snapshot), oc)
    IN  /\ R.states = V.states
        /\ R.order = V.order
        /\ R.irc = V.irc
        /\ R.log = V.log
        /\ R.raised = V.raised

\* The two runs end with the same store entries and the same notifier calls.
SameStoreAsWithoutMalformed(snapshot) ==
  \A oc \in OutcomesOrRaise :
    LET R == Reconcile(PRODUCT_STOCK_STATES, key_order, INITIAL_RUN_COMPLETE,
                       snapshot, oc)
        V == Reconcile(PRODUCT_STOCK_STATES, key_order, INITIAL_RUN_COMPLETE,
                       Valid(snapshot), oc)
    IN  R.states = V.states /\ R.log = V.log

\* No entry and no notifier call for the missing identity.
NothingForNoId ==
  /\ NoId \notin DOMAIN PRODUCT_STOCK_STATES
  /\ \A k \in 1 .. Len(log) : log[k].id # NoId

\* C15 as stated: for every snapshot, the cycle ends with the store and the
\* notifications it would end with without the id-less records: nothing
\* is stored or sent for them, and no identity is deleted or kept because
\* of them.
C15_MalformedSkipped ==
  /\ NothingForNoId
  /\ AtCycleStart => SameStoreAsWithoutMalformed(current_products_api)

\* C15 amended: the same, and the same key order and initial-scan flag,
\* for a snapshot that holds an id-less record and at least one record with
\* an identity.
C15_MalformedSkippedAmongValid ==
  /\ NothingForNoId
  /\ (/\ AtCycleStart
      /\ NoId \in SnapIds(current_products_api)
      /\ Valid(current_products_api) # << >>)
     => SameAsWithoutMalformed(current_products_api)

\* A cycle begins on a snapshot of an id-less record and a record with an
\* identity; the run notifies and deletes.
C15_Witness ==
  /\ AtCycleStart
  /\ Len(current_products_api) = 2
  /\ current_products_api[1].id = NoId
  /\ current_products_api[2].id # NoId
  /\ LET R == Reconcile(PRODUCT_STOCK_STATES, key_order, INITIAL_RUN_COMPLETE,
                        current_products_api, "ok")
     IN  /\ R.log # << >>
         /\ DOMAIN R.states # DOMAIN PRODUCT_STOCK_STATES
         /\ DOMAIN R.states # {}

\* C16: when the notifier raises while the record of identity X is being
\* processed, X's entry is as it was before the record was processed, or
\* it carries the whole update: the record's stock state, name and
\* permalink, and notified = FALSE for the delivery that failed.
C16_AllOrNothing ==
  [][ (pc = "items" /\ pc' = "return" /\ status' = "aborted") =>
        LET rec == current_products_api[idx]
            X == rec.id
        IN  /\ X \in DOMAIN PRODUCT_STOCK_STATES'
            /\ \/ /\ X \in DOMAIN PRODUCT_STOCK_STATES
                  /\ PRODUCT_STOCK_STATES'[X] = PRODUCT_STOCK_STATES[X]
               \/ PRODUCT_STOCK_STATES'[X] =
                    [ name |-> rec.name,
                      is_out_of_stock |-> rec.is_out_of_stock,
                      permalink |-> rec.permalink,
                      notified |-> FALSE ] ]_vars

\* A cycle begins only as the immediate run at the start of run_scheduler
\* or as the job of a tick that is due, and it takes the tick.
CycleStartsOnTick ==
  [][ (pc # "fetch" /\ pc' = "fetch") =>
        \/ schedPc = "startup" /\ ~due
        \/ schedPc = "loop" /\ due ]_vars

\* C17: one cycle runs at once at process start and then one per tick, and
\* after a cycle that failed, the immediate one or a scheduled one, the
\* schedule goes on: a later tick runs a cycle.
C17_ScheduleSurvivesFailure ==
  /\ CycleStartsOnTick
  /\ (schedPc = "startup") ~> (pc = "fetch" /\ schedPc = "initial")
  /\ (pc = "return" /\ status = "aborted") ~> (pc = "fetch" /\ schedPc = "job")

\* The immediate run at process start has failed, and the job of a later
\* tick has begun a cycle.
C17_Witness ==
  /\ Len(hist) = 1
  /\ hist[1].raised
  /\ pc = "fetch"
  /\ schedPc = "job"

\* C18: the initial-scan flag never goes back to FALSE, becomes TRUE only
\* in a cycle with a non-empty snapshot, and is still FALSE when the first
\* cycle with a non-empty snapshot has failed.
C18_FlagMonotone ==
  [][ /\ INITIAL_RUN_COMPLETE => INITIAL_RUN_COMPLETE'
      /\ (~INITIAL_RUN_COMPLETE /\ INITIAL_RUN_COMPLETE')
           => (pc = "firstscan" /\ current_products_api # << >>)
      /\ (cold /\ pc' = "return" /\ status' = "aborted")
           => ~INITIAL_RUN_COMPLETE' ]_vars

\* The record the loop is at.
CurrentRecord == current_products_api[idx]

\* The step of the loop on a record whose identity is not in the store,
\* after the initial scan: the entry is inserted with the record's stock
\* state; out of stock, the notifier is called once for it and notified is
\* TRUE; in stock, no call and notified is FALSE.
FirstSeenStep ==
  (/\ pc = "items"
   /\ INITIAL_RUN_COMPLETE
   /\ CurrentRecord.id # NoId
   /\ CurrentRecord.id \notin DOMAIN PRODUCT_STOCK_STATES)
  => LET rec == CurrentRecord
         X == rec.id
     IN  /\ X \in DOMAIN PRODUCT_STOCK_STATES'
         /\ PRODUCT_STOCK_STATES'[X].is_out_of_stock = rec.is_out_of_stock
         /\ PRODUCT_STOCK_STATES'[X].notified = rec.is_out_of_stock
         /\ IF rec.is_out_of_stock
              THEN /\ Len(log') = Len(log) + 1
                   /\ log'[Len(log')].id = X
                   /\ log'[Len(log')].phase = "item"
              ELSE log' = log

\* At the end of a completed cycle that began after the initial scan, an
\* identity that was not in the store and occurs once in the snapshot was
\* notified once and has notified = TRUE if it is out of stock, and was not
\* notified and has notified = FALSE if it is in stock.
FirstSeenAtCycleEnd ==
  (Returned /\ status = "completed" /\ start_flag) =>
    \A X \in Ids \ DOMAIN start_states :
      OccursOnce(current_products_api, X) =>
        LET rec == current_products_api[CHOOSE j \in RecordsOf(current_products_api, X) : TRUE]
        IN  /\ X \in DOMAIN PRODUCT_STOCK_STATES
            /\ PRODUCT_STOCK_STATES[X].notified = rec.is_out_of_stock
            /\ Cardinality(CallsFor(X)) = IF rec.is_out_of_stock THEN 1 ELSE 0

\* C19: after the initial scan, a first-seen identity that is out of stock
\* is notified exactly once in the cycle that first observes it and stored
\* with notified = TRUE; one that is in stock is stored with notified =
\* FALSE and not notified.
C19_FirstSeenAfterInitialScan ==
  /\ [][FirstSeenStep]_vars
  /\ []FirstSeenAtCycleEnd

\* A cycle after the initial scan has ended in which one first-seen
\* identity is out of stock and notified and another is in stock.
C19_Witness ==
  /\ Returned
  /\ status = "completed"
  /\ start_flag
  /\ start_states = EmptyStates
  /\ Len(log) = 1
  /\ \E X, Y \in DOMAIN PRODUCT_STOCK_STATES :
       /\ PRODUCT_STOCK_STATES[X].notified
       /\ log[1].id = X
       /\ ~PRODUCT_STOCK_STATES[Y].is_out_of_stock
       /\ ~PRODUCT_STOCK_STATES[Y].notified

\* The orders in which the records of a snapshot can arrive.
Orderings(snapshot) ==
  LET n == Len(snapshot)
  IN  { [i \in 1 .. n |-> snapshot[f[i]]] :
          f \in { g \in [1 .. n -> 1 .. n] : \A i, j \in 1 .. n : g[i] = g[j] => i = j } }

\* The identities the notifier was called for.
NotifiedIds(calls) == { calls[k].id : k \in 1 .. Len(calls) }

\* Run on any order of the snapshot's records, the cycle ends with the same
\* store (keys, stock states, notified flags, names, permalinks) and has
\* called the notifier for the same identities.
OrderIndependent(snapshot) ==
  \A oc \in Outcomes :
    LET R == Reconcile(PRODUCT_STOCK_STATES, key_order, INITIAL_RUN_COMPLETE,
                       snapshot, oc)
    IN  \A other \in Orderings(snapshot) :
          LET Q == Reconcile(PRODUCT_STOCK_STATES, key_order,
                             INITIAL_RUN_COMPLETE, other, oc)
          IN  /\ Q.states = R.states
              /\ NotifiedIds(Q.log) = NotifiedIds(R.log)

\* The records of one identity are all alike.
RecordsAgree(snapshot) ==
  \A j, k \in 1 .. Len(snapshot) :
    snapshot[j].id = snapshot[k].id => snapshot[j] = snapshot[k]

\* C20 as stated: for every store and every snapshot the store after the
\* cycle and the notified identities do not depend on the order of the
\* snapshot's records.
C20_OrderIndependence ==
  AtCycleStart => OrderIndependent(current_products_api)

\* C20 amended: the same for a snapshot in which the records of one
\* identity are all alike.
C20_OrderIndependenceOfAgreeingRecords ==
  (AtCycleStart /\ RecordsAgree(current_products_api))
    => OrderIndependent(current_products_api)

\* A cycle begins on a snapshot of two identities; it notifies one of them
\* and deletes an entry.
C20_Witness ==
  /\ AtCycleStart
  /\ Len(current_products_api) = 2
  /\ current_products_api[1].id # current_products_api[2].id
  /\ NoId \notin SnapIds(current_products_api)
  /\ LET R == Reconcile(PRODUCT_STOCK_STATES, key_order, INITIAL_RUN_COMPLETE,
                        current_products_api, "ok")
     IN  /\ Len(R.log) = 1
         /\ R.states # PRODUCT_STOCK_STATES

\* a is b with some of its elements left out.
RECURSIVE IsSubsequence(_, _)
IsSubsequence(a, b) ==
  IF a = << >> THEN TRUE
  ELSE IF b = << >> THEN FALSE
  ELSE IF Head(a) = Head(b) THEN IsSubsequence(Tail(a), Tail(b))
  ELSE IsSubsequence(a, Tail(b))

\* The identities of the notifier calls of one phase, in the order of the
\* calls.
PhaseIds(calls, phase) ==
  LET F[k \in 0 .. Len(calls)] ==
        IF k = 0 THEN << >>
        ELSE IF calls[k].phase = phase THEN Append(F[k - 1], calls[k].id)
        ELSE F[k - 1]
  IN  F[Len(calls)]

\* The identities of the records the loop has processed or, when the cycle
\* was cut short, was processing.
ProcessedIds ==
  LET n == IF pc = "return" /\ status = "aborted" /\ idx <= Len(current_products_api)
             THEN idx ELSE idx - 1
  IN  [k \in 1 .. n |-> current_products_api[k].id]

\* Every call of the sweep comes after every call of the loop.
SweepAfterItems ==
  \A j, k \in 1 .. Len(log) :
    (j < k /\ log[j].phase = "sweep") => log[k].phase = "sweep"

\* C21: within one cycle the notifier is called in the order of the
\* snapshot's records, each call before the next record is processed; in
\* the cycle of the first scan the calls of the sweep come after all calls
\* of the loop and follow the order in which the keys were inserted into
\* the store.
C21_DeliveryOrder ==
  log # << >> =>
    /\ IsSubsequence(PhaseIds(log, "item"), ProcessedIds)
    /\ SweepAfterItems
    /\ (pc \in {"sweep", "delete"} \/ (pc = "return" /\ status = "aborted")) =>
         IsSubsequence(PhaseIds(log, "sweep"), key_order)

\* The first scan has ended after a call of the loop (the re-confirmation
\* of an entry that a cycle cut short left behind) and a call of the sweep
\* for another identity.
C21_Witness ==
  /\ pc = "delete"
  /\ ~start_flag
  /\ Len(log) = 2
  /\ log[1].phase = "item"
  /\ log[2].phase = "sweep"
  /\ log[1].id # log[2].id

\* The one record of identity X in the snapshot.
RecordOf(snapshot, X) ==
  snapshot[CHOOSE j \in RecordsOf(snapshot, X) : TRUE]

\* The record brings no change of the stock state of the entry and no
\* re-confirmation.
OnlyMetadataMayDiffer(prev, rec) ==
  /\ rec.is_out_of_stock = prev.is_out_of_stock
  /\ ~(rec.is_out_of_stock /\ ~prev.notified)

\* C22: when a cycle has ended, an identity that was in the store when the
\* cycle began, occurs once in the snapshot with its stored stock state and
\* needed no re-confirmation, carries the snapshot's name and permalink and
\* the is_out_of_stock and notified it had, and the notifier was not called
\* for it.
C22_MetadataRefresh ==
  (Returned /\ status = "completed") =>
    \A X \in DOMAIN start_states :
      (/\ OccursOnce(current_products_api, X)
       /\ OnlyMetadataMayDiffer(start_states[X], RecordOf(current_products_api, X)))
      => LET rec == RecordOf(current_products_api, X)
         IN  /\ X \in DOMAIN PRODUCT_STOCK_STATES
             /\ PRODUCT_STOCK_STATES[X] =
                  [ name |-> rec.name,
                    is_out_of_stock |-> start_states[X].is_out_of_stock,
                    permalink |-> rec.permalink,
                    notified |-> start_states[X].notified ]
             /\ CallsFor(X) = {}

\* A cycle has ended in which a notified, out-of-stock entry got a new
\* permalink and kept its name.
C22_Witness ==
  /\ Returned
  /\ status = "completed"
  /\ \E X \in DOMAIN start_states \cap DOMAIN PRODUCT_STOCK_STATES :
       /\ OccursOnce(current_products_api, X)
       /\ start_states[X].is_out_of_stock
       /\ start_states[X].notified
       /\ PRODUCT_STOCK_STATES[X].notified
       /\ PRODUCT_STOCK_STATES[X].name = start_states[X].name
       /\ PRODUCT_STOCK_STATES[X].permalink # start_states[X].permalink
       /\ CallsFor(X) = {}

\* C23: handle_reply forwards a message to the stock update exactly when
\* the message is a reply, has text, and the keyword occurs in the text as
\* a case-insensitive substring; for every other message no stock update
\* is awaited and the store stays as it was.
C23_ForwardsExactlyKeywordReplies ==
  (probe.fn = "handle_reply" /\ probe.done) =>
    /\ probe.forwarded =
         (/\ probe.message.reply_to # NoId
          /\ probe.message.text # << >>
          /\ OccursIgnoringCase(probe.keyword, probe.message.text))
    /\ ~probe.forwarded =>
         /\ reply = NoReply
         /\ PRODUCT_STOCK_STATES = EmptyStates
         /\ ~INITIAL_RUN_COMPLETE

\* A reply whose text holds the keyword in another case, not at the start,
\* has been forwarded and the stock update is awaited.
C23_Witness ==
  /\ probe.fn = "handle_reply"
  /\ probe.done
  /\ probe.forwarded
  /\ probe.message = Message(1, << "b", "A", "b" >>)
  /\ probe.keyword = << "a", "B" >>
  /\ reply = [pc |-> "update", post |-> 1]

\* C24: in a cycle that began with the initial-scan flag FALSE the loop
\* calls the notifier for no record, whatever the snapshot, one that holds
\* an identity more than once included: every call of such a cycle is a
\* call of the sweep.
C24_ColdStartItemsSilent ==
  (pc \in {"items", "firstscan", "sweep", "delete", "return"} /\ ~start_flag) =>
    \A k \in 1 .. Len(log) : log[k].phase = "sweep"

\* No identity occurs in two records of the snapshot.
DistinctIds(snapshot) ==
  \A p \in Ids : Cardinality(RecordsOf(snapshot, p)) <= 1

\* C25: in a cycle whose snapshot holds no identity twice, the notifier is
\* called at most once for each identity, the calls of the loop and of the
\* first-scan sweep counted together: the sweep does not call it for an
\* identity the loop has called it for.
C25_AtMostOncePerCycle ==
  (Len(log) > 1 /\ DistinctIds(current_products_api))
  => \A j, k \in 1 .. Len(log) : log[j].id = log[k].id => j = k

\* The first-scan sweep has passed an entry the loop of the same cycle had
\* re-confirmed, and has notified another identity of the snapshot.
C25_Witness ==
  /\ pc = "delete"
  /\ ~start_flag
  /\ DistinctIds(current_products_api)
  /\ Len(current_products_api) = 2
  /\ key_order = << 1, 2 >>
  /\ Len(log) = 2
  /\ log[1] = [id |-> 1, phase |-> "item", outcome |-> "fail"]
  /\ log[2].id = 2
  /\ log[2].phase = "sweep"

\* No cycle is skipped for an empty snapshot or cut short by the notifier,
\* and the snapshot of the cycle that is running holds X, out of stock in
\* every record of X.
StaysOutOfStock(X) ==
  /\ status \notin {"aborted", "skipped"}
  /\ pc \in {"items", "firstscan", "sweep", "delete", "return"} =>
       /\ RecordsOf(current_products_api, X) # {}
       /\ \A j \in RecordsOf(current_products_api, X) :
            current_products_api[j].is_out_of_stock

\* X is in the store with notified = TRUE.
NotifiedIn(X) ==
  X \in DOMAIN PRODUCT_STOCK_STATES /\ PRODUCT_STOCK_STATES[X].notified

\* A cycle that ran to its end on a snapshot that shows X out of stock
\* leaves X notified.
CompletedCycleNotifies ==
  (Returned /\ status = "completed") =>
    \A X \in Ids : StaysOutOfStock(X) => NotifiedIn(X)

\* C26: when cycles keep running and, from some cycle on, every snapshot is
\* non-empty and shows X out of stock and the notifier does not raise, X
\* is notified from some moment on; so it is after a cycle that was cut
\* short in the first-scan sweep, the entries the sweep left un-notified
\* being notified by the loop of a later cycle.
C26_EventualNotification ==
  /\ []CompletedCycleNotifies
  /\ \A X \in Ids :
       ([]<>(pc = "fetch") /\ <>[]StaysOutOfStock(X)) => <>[]NotifiedIn(X)

\* The first scan was cut short by the notifier raising in the sweep, for
\* the one product of the snapshot, and the next cycle, the product still
\* out of stock, has called the notifier once and left it notified.
C26_Witness ==
  /\ pc = "idle"
  /\ Len(hist) = 2
  /\ hist[1] = [oos |-> TRUE, calls |-> 1, raised |-> TRUE]
  /\ hist[2] = [oos |-> TRUE, calls |-> 1, raised |-> FALSE]
  /\ NotifiedIn(1)

====
